---------------------------- MODULE Spec2Model ----------------------------
(***************************************************************************)
(* Model of aicb.data_prep.awel_reader.AwelReader: the free-text           *)
(* transcript parser (_parse_conversation), the batch driver               *)
(* (_parse_conversation_list) and the query layer of the reader.           *)
(*                                                                         *)
(* A string is a sequence of atoms.  An atom is one character (a digit,    *)
(* ":", ".", ",", "-", " ", "\n") or a run of letters written as one atom  *)
(* ("Date/time", "Awel", "hoi"): a letter run is neither a digit, a colon, *)
(* a dot, a comma nor whitespace, so both regular expressions of the       *)
(* parser treat every character of it alike.                               *)
(***************************************************************************)
EXTENDS Integers, Sequences, FiniteSets, TLC

VARIABLES
    text,            \* argument `text` of _parse_conversation
    source,          \* argument `source` of _parse_conversation
    result,          \* what the call of _parse_conversation produced
    pc,              \* "call" before the parse, "done" after it
    rows,            \* the 'gesprek anoniem' column of the data file
    validate_data,   \* AwelReader.validate_data
    conversations,   \* AwelReader._conversations
    nextId,          \* the next value uuid.uuid4() hands out
    log,             \* indices logged by logger.error in the batch driver
    ret,             \* the last public call: its name, argument and outcome
    firstLoad,       \* << what the first load_conversations returned >>
    returnedIds,     \* ids of the conversations load_conversations returned
    nLoads           \* how often the data file has been read and parsed

vars == << text, source, result, pc, rows, validate_data, conversations,
           nextId, log, ret, firstLoad, returnedIds, nLoads >>

parserVars == << text, source, result, pc >>
readerVars == << rows, validate_data, conversations, log, ret,
                 firstLoad, returnedIds, nLoads >>

(***************************************************************************)
(* Bounds                                                                  *)
(***************************************************************************)
MaxLines == 3
MaxRows == 2
MaxLoads == 3

(***************************************************************************)
(* Characters                                                              *)
(***************************************************************************)
DigitChars == << "0", "1", "2", "3", "4", "5", "6", "7", "8", "9" >>

IsDigit(c) == \E i \in 1..10 : DigitChars[i] = c

DigitVal(c) == (CHOOSE i \in 1..10 : DigitChars[i] = c) - 1

IsSpace(c) == c \in { " ", "\n" }

IsDateChar(c) == IsDigit(c) \/ c = "."

Min(a, b) == IF a <= b THEN a ELSE b

RECURSIVE SkipSpace(_, _)
SkipSpace(t, i) ==
    IF i <= Len(t) /\ IsSpace(t[i]) THEN SkipSpace(t, i + 1) ELSE i

RECURSIVE SkipDateChars(_, _)
SkipDateChars(t, i) ==
    IF i <= Len(t) /\ IsDateChar(t[i]) THEN SkipDateChars(t, i + 1) ELSE i

\* index of the last character of the line that position i lies on
\* (i - 1 when the line is empty from i on)
RECURSIVE LineEnd(_, _)
LineEnd(t, i) ==
    IF i <= Len(t) /\ t[i] # "\n" THEN LineEnd(t, i + 1) ELSE i - 1

\* \d{2}:\d{2} matches at position i
TimeAt(t, i) ==
    /\ i >= 1
    /\ i + 4 <= Len(t)
    /\ IsDigit(t[i])
    /\ IsDigit(t[i + 1])
    /\ t[i + 2] = ":"
    /\ IsDigit(t[i + 3])
    /\ IsDigit(t[i + 4])

\* str.strip()
RECURSIVE LStrip(_)
LStrip(s) ==
    IF s # << >> /\ IsSpace(Head(s)) THEN LStrip(Tail(s)) ELSE s

RECURSIVE RStrip(_)
RStrip(s) ==
    IF s # << >> /\ IsSpace(s[Len(s)])
    THEN RStrip(SubSeq(s, 1, Len(s) - 1))
    ELSE s

Strip(s) == RStrip(LStrip(s))

(***************************************************************************)
(* datetime.strptime(s, "%d.%m.%Y %H:%M")                                  *)
(***************************************************************************)
ValueError == [kind |-> "ValueError"]

IsLeap(y) == (y % 4 = 0 /\ y % 100 # 0) \/ y % 400 = 0

DaysInMonth(y, m) ==
    IF m = 2 THEN (IF IsLeap(y) THEN 29 ELSE 28)
    ELSE IF m \in {4, 6, 9, 11} THEN 30 ELSE 31

RECURSIVE DigitsVal(_)
DigitsVal(s) ==
    IF s = << >> THEN 0
    ELSE 10 * DigitsVal(SubSeq(s, 1, Len(s) - 1)) + DigitVal(s[Len(s)])

\* positions of the dots of s
Dots(s) == { i \in 1..Len(s) : s[i] = "." }

\* strptime applied to f"{conv_date} {time_str}": conv_date is what [\d.]+
\* captured, time_str what \d{2}:\d{2} captured.  %d and %m take one or two
\* digits (01..31, 1..31; 01..12, 1..12), %Y four, %H 00..23, %M 00..59; the
\* whole string has to be consumed and the date has to exist.
strptime(conv_date, time_str) ==
    IF Cardinality(Dots(conv_date)) # 2 THEN ValueError
    ELSE
      LET d1 == CHOOSE i \in Dots(conv_date) : \A j \in Dots(conv_date) : i <= j
          d2 == CHOOSE i \in Dots(conv_date) : \A j \in Dots(conv_date) : i >= j
          ds == SubSeq(conv_date, 1, d1 - 1)
          ms == SubSeq(conv_date, d1 + 1, d2 - 1)
          ys == SubSeq(conv_date, d2 + 1, Len(conv_date))
          d  == DigitsVal(ds)
          m  == DigitsVal(ms)
          y  == DigitsVal(ys)
          h  == DigitsVal(SubSeq(time_str, 1, 2))
          mi == DigitsVal(SubSeq(time_str, 4, 5))
      IN  IF /\ Len(ds) \in {1, 2}
             /\ Len(ms) \in {1, 2}
             /\ Len(ys) = 4
             /\ m \in 1..12
             /\ y >= 1
             /\ d >= 1
             /\ d <= DaysInMonth(y, m)
             /\ h <= 23
             /\ mi <= 59
          THEN [kind |-> "datetime", year |-> y, month |-> m, day |-> d,
                hour |-> h, minute |-> mi]
          ELSE ValueError

(***************************************************************************)
(* re.search(r"Date/time:\s*([\d.]+),\s*(\d{2}:\d{2})", text)              *)
(***************************************************************************)
NoMatch == [ok |-> FALSE]

\* the pattern with the comma made optional
HeaderMatchAtOptionalComma(t, i) ==
    IF ~ (i + 1 <= Len(t) /\ t[i] = "Date/time" /\ t[i + 1] = ":")
    THEN NoMatch
    ELSE
      LET j == SkipSpace(t, i + 2)
          k == SkipDateChars(t, j)
          l == IF k <= Len(t) /\ t[k] = "," THEN SkipSpace(t, k + 1)
               ELSE SkipSpace(t, k)
      IN  IF k > j /\ TimeAt(t, l)
          THEN [ok |-> TRUE, date |-> SubSeq(t, j, k - 1),
                time |-> SubSeq(t, l, l + 4)]
          ELSE NoMatch

HeaderMatchAt(t, i) ==
    IF ~ (i + 1 <= Len(t) /\ t[i] = "Date/time" /\ t[i + 1] = ":")
    THEN NoMatch
    ELSE
      LET j == SkipSpace(t, i + 2)
          k == SkipDateChars(t, j)
          l == SkipSpace(t, k + 1)
      IN  IF k > j /\ k <= Len(t) /\ t[k] = "," /\ TimeAt(t, l)
          THEN [ok |-> TRUE, date |-> SubSeq(t, j, k - 1),
                time |-> SubSeq(t, l, l + 4)]
          ELSE NoMatch

HeaderSearch(t) ==
    IF \E i \in 1..Len(t) : HeaderMatchAt(t, i).ok
    THEN HeaderMatchAt(t, CHOOSE i \in 1..Len(t) :
                            /\ HeaderMatchAt(t, i).ok
                            /\ \A j \in 1..(i - 1) : ~ HeaderMatchAt(t, j).ok)
    ELSE NoMatch

\* msg_pattern, written here with its three groups apart:
\*   group 1  \d{2}:\d{2}      then \s+
\*   group 2  [^:]+            then a colon and \s+
\*   group 3  [^\n]+ followed by any number of continuation lines, each a
\*            newline not followed by \d{2}:\d{2} and then the rest of the line
\*
\* FoldLines is the continuation-line part of group 3 from the end e of the
\* line matched so far: the index of the last character the group consumes
RECURSIVE FoldLines(_, _)
FoldLines(t, e) ==
    IF e + 1 <= Len(t) /\ t[e + 1] = "\n" /\ ~ TimeAt(t, e + 2)
    THEN FoldLines(t, LineEnd(t, e + 2))
    ELSE e

\* msg_pattern with the whitespace after the sender's colon made optional
\* (\s* for \s+)
MsgMatchAtOptionalSpace(t, i) ==
    IF ~ (TimeAt(t, i) /\ i + 5 <= Len(t) /\ IsSpace(t[i + 5])) THEN NoMatch
    ELSE LET a == i + 5
             colons == { c \in (a + 1)..Len(t) : t[c] = ":" }
         IN IF colons = {} THEN NoMatch
            ELSE LET c == CHOOSE x \in colons : \A y \in colons : x <= y
                     roleStart == Min(SkipSpace(t, a), c - 1)
                     b == c + 1
                     w == SkipSpace(t, b)
                     starts == IF w <= Len(t) THEN {w}
                               ELSE { k \in b..Len(t) : t[k] # "\n" }
                 IN IF c < a + 2 \/ starts = {}
                    THEN NoMatch
                    ELSE LET s == CHOOSE x \in starts : \A y \in starts : x >= y
                             e == FoldLines(t, LineEnd(t, s))
                         IN [ok |-> TRUE, start |-> i, time |-> SubSeq(t, i, i + 4),
                             role |-> SubSeq(t, roleStart, c - 1),
                             content |-> SubSeq(t, s, e), end |-> e + 1]

MsgMatchAt(t, i) ==
    IF ~ (TimeAt(t, i) /\ i + 5 <= Len(t) /\ IsSpace(t[i + 5]))
    THEN NoMatch
    ELSE
      LET a == i + 5
          colons == { c \in (a + 1)..Len(t) : t[c] = ":" }
      IN  IF colons = {} THEN NoMatch
          ELSE
            LET c == CHOOSE x \in colons : \A y \in colons : x <= y
                \* \s+ is greedy but leaves [^:]+ at least one character
                roleStart == Min(SkipSpace(t, a), c - 1)
                b == c + 1
                w == SkipSpace(t, b)
                \* \s+ gives characters back until [^\n]+ can start
                starts == IF w <= Len(t) THEN {w}
                          ELSE { k \in (b + 1)..Len(t) : t[k] # "\n" }
            IN  IF c < a + 2 \/ ~ (b <= Len(t) /\ IsSpace(t[b])) \/ starts = {}
                THEN NoMatch
                ELSE
                  LET s == CHOOSE x \in starts : \A y \in starts : x >= y
                      e == FoldLines(t, LineEnd(t, s))
                  IN  [ok |-> TRUE,
                       start |-> i,
                       time |-> SubSeq(t, i, i + 4),
                       role |-> SubSeq(t, roleStart, c - 1),
                       content |-> SubSeq(t, s, e),
                       end |-> e + 1]

\* msg_pattern.finditer(text) from position pos on: the matches, left to
\* right, not overlapping
RECURSIVE FindIter(_, _)
FindIter(t, pos) ==
    IF pos > Len(t) THEN << >>
    ELSE LET m == MsgMatchAt(t, pos)
         IN  IF m.ok THEN << m >> \o FindIter(t, m.end)
             ELSE FindIter(t, pos + 1)

(***************************************************************************)
(* AwelReader._parse_conversation                                          *)
(***************************************************************************)
OperatorLabels == { << "Awel" >>, << "Awel", " ", "wachtrij" >> }

RoleOfNoStrip(role) == IF role \in OperatorLabels THEN "operator" ELSE "user"

RoleOf(role) == IF Strip(role) \in OperatorLabels THEN "operator" ELSE "user"

MessageOf(conv_date, m) ==
    [timestamp |-> strptime(conv_date, m.time),
     role |-> RoleOf(m.role),
     content |-> Strip(m.content)]

Messages(conv_date, t) ==
    LET ms == FindIter(t, 1)
    IN  [n \in 1..Len(ms) |-> MessageOf(conv_date, ms[n])]

Topic == "Conflict with friends"

\* the Conversation built without looking at the messages' timestamps
BuildConversationLenient(conv_datetime, messages, t, src, id) ==
    IF conv_datetime = ValueError THEN ValueError
    ELSE [kind |-> "Conversation",
          id |-> id,
          topic |-> Topic,
          messages |-> messages,
          metadata |-> [timestamp |-> conv_datetime, source |-> src],
          raw |-> t]

\* lines 176-196: the messages are built, then the Conversation
BuildConversation(conv_datetime, messages, t, src, id) ==
    IF conv_datetime = ValueError THEN ValueError
    ELSE IF \E n \in 1..Len(messages) : messages[n].timestamp = ValueError
    THEN ValueError
    ELSE [kind |-> "Conversation",
          id |-> id,
          topic |-> Topic,
          messages |-> messages,
          metadata |-> [timestamp |-> conv_datetime, source |-> src],
          raw |-> t]

\* lines 167-172 on the match object of the header
ParseWithHeader(h, t, src, id) ==
    IF ~ h.ok THEN ValueError
    ELSE BuildConversation(strptime(h.date, h.time), Messages(h.date, t),
                           t, src, id)

_parse_conversation(t, src, id) == ParseWithHeader(HeaderSearch(t), t, src, id)

(***************************************************************************)
(* Inputs of the parser: transcripts of up to MaxLines lines, each line    *)
(* one of the shapes below.                                                *)
(***************************************************************************)
\* "Date/time: 10.02.2023, 17:22 - 17:43"
HeaderLine ==
    << "Date/time", ":", " ", "1", "0", ".", "0", "2", ".", "2", "0", "2", "3",
       ",", " ", "1", "7", ":", "2", "2", " ", "-", " ", "1", "7", ":", "4", "3" >>

\* "Date/time: 31.02.2023, 17:22": the pattern matches, the date does not exist
BadDateHeaderLine ==
    << "Date/time", ":", " ", "3", "1", ".", "0", "2", ".", "2", "0", "2", "3",
       ",", " ", "1", "7", ":", "2", "2" >>

\* "Date/time: 10.02.2023 17:22": no comma between the date and the time
NoCommaHeaderLine ==
    << "Date/time", ":", " ", "1", "0", ".", "0", "2", ".", "2", "0", "2", "3",
       " ", "1", "7", ":", "2", "2" >>

\* "17:22 Awel wachtrij: Hallo!"
QueueLine ==
    << "1", "7", ":", "2", "2", " ", "Awel", " ", "wachtrij", ":", " ", "Hallo!" >>

\* "17:26 Anna: hoi"
UserLine == << "1", "7", ":", "2", "6", " ", "Anna", ":", " ", "hoi" >>

\* "17:31  Awel : dag", the label with whitespace around it
OperatorLine ==
    << "1", "7", ":", "3", "1", " ", " ", "Awel", " ", ":", " ", "dag" >>

\* "17:40 Anna:", a message line without content
EmptyContentLine == << "1", "7", ":", "4", "0", " ", "Anna", ":" >>

\* "99:99 Anna: hoi", digits that are no time of day
BadTimeLine == << "9", "9", ":", "9", "9", " ", "Anna", ":", " ", "hoi" >>

\* "17:45 Jan:Piet: ja", a sender label with a colon in it
ColonLabelLine ==
    << "1", "7", ":", "4", "5", " ", "Jan", ":", "Piet", ":", " ", "ja" >>

\* "17:46 Jan: Piet: ja", a sender label with a colon and a space in it
ColonSpaceLabelLine ==
    << "1", "7", ":", "4", "6", " ", "Jan", ":", " ", "Piet", ":", " ", "ja" >>

\* "en verder", a line of text
PlainLine == << "en", " ", "verder" >>

\* "Noot: tekst", a line with a colon and no time
NoteLine == << "Noot", ":", " ", "tekst" >>

\* ""
EmptyLine == << >>

LineKinds ==
    { HeaderLine, BadDateHeaderLine, NoCommaHeaderLine, QueueLine, UserLine, OperatorLine,
      EmptyContentLine, BadTimeLine, ColonLabelLine, ColonSpaceLabelLine,
      PlainLine, NoteLine,
      EmptyLine }

RECURSIVE JoinLines(_)
JoinLines(ls) ==
    IF ls = << >> THEN << >>
    ELSE IF Len(ls) = 1 THEN ls[1]
    ELSE ls[1] \o << "\n" >> \o JoinLines(Tail(ls))

LineSeqs(n) == UNION { [1..k -> LineKinds] : k \in 0..n }

Texts == { JoinLines(ls) : ls \in LineSeqs(MaxLines) }

Sources == { "awel_chat", "file_b" }

None == [kind |-> "None"]

(***************************************************************************)
(* The parser on its own: one call of _parse_conversation.  uuid.uuid4()   *)
(* is a value never handed out before, here the next number.               *)
(***************************************************************************)
NoCall == [op |-> "none"]

ReaderIdle ==
    /\ rows = << >>
    /\ validate_data = TRUE
    /\ conversations = << >>
    /\ log = << >>
    /\ ret = NoCall
    /\ firstLoad = << >>
    /\ returnedIds = {}
    /\ nLoads = 0

InitParse ==
    /\ text \in Texts
    /\ source \in Sources
    /\ result = None
    /\ pc = "call"
    /\ nextId = 1
    /\ ReaderIdle

ParseConversation ==
    /\ pc = "call"
    /\ result' = _parse_conversation(text, source, nextId)
    /\ nextId' = IF result'.kind = "Conversation" THEN nextId + 1 ELSE nextId
    /\ pc' = "done"
    /\ UNCHANGED << text, source >>
    /\ UNCHANGED readerVars

NextParse == ParseConversation

SpecParse == InitParse /\ [][NextParse]_vars

(***************************************************************************)
(* AwelReader._parse_conversation_list                                     *)
(***************************************************************************)
\* the loop body for the rows from position n on (idx = n - 1 in the code);
\* id is the next fresh identifier
\* the state of the loop: the list `conversations`, what logger.error has
\* written and the next fresh identifier
NoRows(id) == [conversations |-> << >>, logged |-> << >>, nextId |-> id,
               raised |-> FALSE]

\* the loop body with the loop left at the first failure
LoopBodyHalt(acc, convo, idx) ==
    IF acc.logged # << >> THEN acc
    ELSE IF convo.kind = "Conversation"
    THEN [acc EXCEPT !.conversations = Append(@, convo), !.nextId = @ + 1]
    ELSE [acc EXCEPT !.logged = Append(@, idx)]

\* the loop body for row idx, of which the parser made convo: append it, or
\* log the failure and go on
LoopBody(acc, convo, idx) ==
    IF convo.kind = "Conversation"
    THEN [acc EXCEPT !.conversations = Append(@, convo), !.nextId = @ + 1]
    ELSE [acc EXCEPT !.logged = Append(@, idx)]

\* for idx, row in enumerate(data), from row n on (idx = n - 1)
RECURSIVE ParseRows(_, _, _)
ParseRows(data, n, acc) ==
    IF n > Len(data) THEN acc
    ELSE ParseRows(data, n + 1,
                   LoopBody(acc,
                            _parse_conversation(data[n], "awel_chat",
                                                acc.nextId),
                            n - 1))

\* the except clause catches every Exception whatever validate_data is, so
\* the call never raises
_parse_conversation_list(validate, data, id) == ParseRows(data, 1, NoRows(id))

(***************************************************************************)
(* The reader: the rows of the data file do not change after construction. *)
(***************************************************************************)
\* "17:26 Anna: hoi": no header
RowNoHeader == JoinLines(<< UserLine >>)

\* a header and nothing else
RowNoMessages == JoinLines(<< HeaderLine >>)

\* a header, an empty line and one message
RowOneMessage == JoinLines(<< HeaderLine, EmptyLine, UserLine >>)

\* a header, an empty line and two messages four minutes apart
RowTwoMessages == JoinLines(<< HeaderLine, EmptyLine, QueueLine, UserLine >>)

RowTexts == { RowNoHeader, RowNoMessages, RowOneMessage, RowTwoMessages }

Files == UNION { [1..k -> RowTexts] : k \in 0..MaxRows }

Init ==
    /\ rows \in Files
    /\ validate_data \in BOOLEAN
    /\ conversations = << >>
    /\ nextId = 1
    /\ log = << >>
    /\ ret = NoCall
    /\ firstLoad = << >>
    /\ returnedIds = {}
    /\ nLoads = 0
    /\ text = << >>
    /\ source = "awel_chat"
    /\ result = None
    /\ pc = "idle"

Ids(convs) == { convs[n].id : n \in 1..Len(convs) }

\* load_conversations called by the user of the reader
LoadConversations ==
    /\ nLoads + 1 <= MaxLoads
    /\ \E r \in { _parse_conversation_list(validate_data, rows, nextId) } :
           /\ conversations' = r.conversations
           /\ nextId' = r.nextId
           /\ log' = log \o r.logged
           /\ ret' = [op |-> "load_conversations", raised |-> r.raised,
                      value |-> r.conversations, logged |-> r.logged]
           /\ firstLoad' = IF firstLoad = << >> THEN << r.conversations >>
                           ELSE firstLoad
           /\ returnedIds' = returnedIds \cup Ids(r.conversations)
    /\ nLoads' = nLoads + 1
    /\ UNCHANGED << rows, validate_data >>
    /\ UNCHANGED parserVars

\* filter_by_topic
FilterByTopic(topic) ==
    /\ nLoads + 1 <= MaxLoads
    /\ \E r \in { _parse_conversation_list(validate_data, rows, nextId) } :
           /\ conversations' = r.conversations
           /\ nextId' = r.nextId
           /\ log' = log \o r.logged
           /\ ret' = [op |-> "filter_by_topic", raised |-> r.raised,
                      arg |-> topic,
                      value |-> SelectSeq(r.conversations,
                                          LAMBDA c : c.topic = topic)]
    /\ nLoads' = nLoads + 1
    /\ UNCHANGED << rows, validate_data, firstLoad, returnedIds >>
    /\ UNCHANGED parserVars

\* sorted(list(set(conv.topic for conv in conversations))): every
\* conversation of the free-text path carries the one placeholder topic
TopicsOf(convs) == IF convs = << >> THEN << >> ELSE << Topic >>

\* get_topics
GetTopics ==
    /\ nLoads + 1 <= MaxLoads
    /\ \E r \in { _parse_conversation_list(validate_data, rows, nextId) } :
           /\ conversations' = r.conversations
           /\ nextId' = r.nextId
           /\ log' = log \o r.logged
           /\ ret' = [op |-> "get_topics", raised |-> r.raised,
                      value |-> TopicsOf(r.conversations)]
    /\ nLoads' = nLoads + 1
    /\ UNCHANGED << rows, validate_data, firstLoad, returnedIds >>
    /\ UNCHANGED parserVars

\* the loop of get_conversation_by_id: the first conversation with the id
Lookup(convs, conversation_id) ==
    IF \E n \in 1..Len(convs) : convs[n].id = conversation_id
    THEN convs[CHOOSE n \in 1..Len(convs) :
                 /\ convs[n].id = conversation_id
                 /\ \A k \in 1..(n - 1) : convs[k].id # conversation_id]
    ELSE None

\* get_conversation_by_id; the caller passes an identifier that uuid4 has
\* handed out so far, or 0, a string that is no identifier at all
GetConversationById(conversation_id) ==
    /\ nLoads + 1 <= MaxLoads
    /\ \E r \in { _parse_conversation_list(validate_data, rows, nextId) } :
           /\ conversations' = r.conversations
           /\ nextId' = r.nextId
           /\ log' = log \o r.logged
           /\ ret' = [op |-> "get_conversation_by_id", raised |-> r.raised,
                      arg |-> conversation_id,
                      value |-> Lookup(r.conversations, conversation_id)]
    /\ nLoads' = nLoads + 1
    /\ UNCHANGED << rows, validate_data, firstLoad, returnedIds >>
    /\ UNCHANGED parserVars

(***************************************************************************)
(* AwelReader.get_statistics                                               *)
(***************************************************************************)
ZeroDivisionError == [kind |-> "ZeroDivisionError"]

\* a / b on numbers: the exact quotient, or the error Python raises
TrueDiv(a, b) ==
    IF b = 0 THEN ZeroDivisionError ELSE [kind |-> "float", num |-> a, den |-> b]

\* round(x, 2) in hundredths, halves to the even neighbour
Round2(x) ==
    LET n == 100 * x.num
        q == n \div x.den
        r == n % x.den
    IN  IF 2 * r < x.den THEN q
        ELSE IF 2 * r > x.den THEN q + 1
        ELSE IF q % 2 = 0 THEN q ELSE q + 1

\* days of year y before the first of month m
RECURSIVE DaysBeforeMonth(_, _)
DaysBeforeMonth(y, m) ==
    IF m = 1 THEN 0 ELSE DaysInMonth(y, m - 1) + DaysBeforeMonth(y, m - 1)

\* minutes from 0001-01-01 00:00 to the datetime
MinuteOf(dt) ==
    LET y == dt.year - 1
        days == 365 * y + (y \div 4) - (y \div 100) + (y \div 400)
                + DaysBeforeMonth(dt.year, dt.month) + dt.day
    IN  (days * 24 + dt.hour) * 60 + dt.minute

\* (end_time - start_time).total_seconds() / 60 of one conversation
DurationMinutes(conv) ==
    MinuteOf(conv.messages[Len(conv.messages)].timestamp)
        - MinuteOf(conv.messages[1].timestamp)

RECURSIVE SumSeq(_)
SumSeq(s) == IF s = << >> THEN 0 ELSE Head(s) + SumSeq(Tail(s))

\* the list `durations`: one entry per conversation of two or more messages
RECURSIVE Durations(_)
Durations(convs) ==
    IF convs = << >> THEN << >>
    ELSE IF Len(Head(convs).messages) >= 2
         THEN << DurationMinutes(Head(convs)) >> \o Durations(Tail(convs))
         ELSE Durations(Tail(convs))

RECURSIVE TotalMessages(_)
TotalMessages(convs) ==
    IF convs = << >> THEN 0
    ELSE Len(Head(convs).messages) + TotalMessages(Tail(convs))

AvgDurationUnguarded(durations) ==
    TrueDiv(SumSeq(durations), Len(durations))

\* sum(durations) / len(durations) if durations else 0
AvgDuration(durations) ==
    IF durations # << >>
    THEN TrueDiv(SumSeq(durations), Len(durations))
    ELSE [kind |-> "float", num |-> 0, den |-> 1]

EmptyDict == [kind |-> "empty_dict"]

\* the body of get_statistics after the two loads; numbers rounded to two
\* places are kept in hundredths
Statistics(convs, topics) ==
    IF convs = << >> THEN EmptyDict
    ELSE
      LET total_conversations == Len(convs)
          total_messages == TotalMessages(convs)
          avg_duration == AvgDuration(Durations(convs))
          avg_messages == TrueDiv(total_messages, total_conversations)
      IN  IF avg_duration = ZeroDivisionError \/ avg_messages = ZeroDivisionError
          THEN ZeroDivisionError
          ELSE [kind |-> "dict",
                total_conversations |-> total_conversations,
                total_messages |-> total_messages,
                avg_messages_per_conversation |-> Round2(avg_messages),
                unique_topics |-> Len(topics),
                topics |-> topics,
                avg_conversation_length_minutes |-> Round2(avg_duration)]

\* get_statistics: load_conversations, then, unless nothing was loaded,
\* get_topics, which loads again
GetStatistics ==
    \E r1 \in { _parse_conversation_list(validate_data, rows, nextId) } :
      IF r1.conversations = << >>
      THEN /\ nLoads + 1 <= MaxLoads
           /\ conversations' = r1.conversations
           /\ nextId' = r1.nextId
           /\ log' = log \o r1.logged
           /\ nLoads' = nLoads + 1
           /\ ret' = [op |-> "get_statistics", raised |-> FALSE,
                      value |-> Statistics(r1.conversations, << >>),
                      loaded |-> r1.conversations]
           /\ UNCHANGED << rows, validate_data, firstLoad, returnedIds >>
           /\ UNCHANGED parserVars
      ELSE /\ nLoads + 2 <= MaxLoads
           /\ \E r2 \in { _parse_conversation_list(validate_data, rows,
                                                    r1.nextId) } :
               \E stats \in { Statistics(r1.conversations,
                                         TopicsOf(r2.conversations)) } :
                 /\ conversations' = r2.conversations
                 /\ nextId' = r2.nextId
                 /\ log' = log \o r1.logged \o r2.logged
                 /\ ret' = [op |-> "get_statistics",
                            raised |-> (stats = ZeroDivisionError),
                            value |-> stats, loaded |-> r1.conversations]
           /\ nLoads' = nLoads + 2
           /\ UNCHANGED << rows, validate_data, firstLoad, returnedIds >>
           /\ UNCHANGED parserVars

Topics == { Topic, "anxiety" }

Next ==
    \/ LoadConversations
    \/ \E topic \in Topics : FilterByTopic(topic)
    \/ GetTopics
    \/ \E conversation_id \in 0..(nextId - 1) :
          GetConversationById(conversation_id)
    \/ GetStatistics

Spec == Init /\ [][Next]_vars

(***************************************************************************)
(* Vocabulary of the properties, stated on the text itself                 *)
(***************************************************************************)
\* the lines of a text
RECURSIVE LinesOf(_)
LinesOf(t) ==
    IF \E i \in 1..Len(t) : t[i] = "\n"
    THEN LET i == CHOOSE x \in 1..Len(t) :
                    t[x] = "\n" /\ \A y \in 1..(x - 1) : t[y] # "\n"
         IN  << SubSeq(t, 1, i - 1) >> \o LinesOf(SubSeq(t, i + 1, Len(t)))
    ELSE << t >>

\* somewhere in t stands "Date/time:", optional whitespace, a run of digits
\* and dots, a comma, optional whitespace and an HH:MM token
HasHeaderForm(t) ==
    \E i \in 1..Len(t) :
      /\ t[i] = "Date/time"
      /\ i + 1 <= Len(t)
      /\ t[i + 1] = ":"
      /\ \E j \in (i + 2)..Len(t) :
           /\ \A x \in (i + 2)..(j - 1) : IsSpace(t[x])
           /\ \E k \in (j + 1)..Len(t) :
                /\ \A x \in j..(k - 1) : IsDateChar(t[x])
                /\ t[k] = ","
                /\ \E l \in (k + 1)..Len(t) :
                     /\ \A x \in (k + 1)..(l - 1) : IsSpace(t[x])
                     /\ TimeAt(t, l)

\* s without the whitespace around it
Trimmed(s) ==
    LET ns == { i \in 1..Len(s) : ~ IsSpace(s[i]) }
    IN  IF ns = {} THEN << >>
        ELSE SubSeq(s, CHOOSE i \in ns : \A j \in ns : i <= j,
                       CHOOSE i \in ns : \A j \in ns : i >= j)

\* the line is a header with a date that exists and a start time of day
IsValidHeaderLine(l) ==
    /\ HasHeaderForm(l)
    /\ l # << >>
    /\ l[1] = "Date/time"
    /\ HeaderMatchAt(l, 1).ok
    /\ strptime(HeaderMatchAt(l, 1).date, HeaderMatchAt(l, 1).time) # ValueError

\* the line begins with an HH:MM token that is a time of day, followed by
\* whitespace, a sender label and a colon
IsMessageLine(l) ==
    /\ TimeAt(l, 1)
    /\ DigitsVal(SubSeq(l, 1, 2)) <= 23
    /\ DigitsVal(SubSeq(l, 4, 5)) <= 59
    /\ Len(l) >= 8
    /\ IsSpace(l[6])
    /\ \E c \in 8..Len(l) :
         /\ l[c] = ":"
         /\ \E x \in 7..(c - 1) : ~ IsSpace(l[x])

\* the line holds one colon after its HH:MM token
HasOneColon(l) == Cardinality({ c \in 6..Len(l) : l[c] = ":" }) = 1

\* the text is a valid header line followed by message lines only, each
\* with one colon after its time token, the last one with content after it
IsHeaderThenMessageLines(t) ==
    LET ls == LinesOf(t)
    IN  /\ IsValidHeaderLine(ls[1])
        /\ \A n \in 2..Len(ls) : IsMessageLine(ls[n]) /\ HasOneColon(ls[n])
        /\ t[Len(t)] # ":"

\* the rows of the file that _parse_conversation rejects
Fails(t) == _parse_conversation(t, "awel_chat", 0) = ValueError

FailedCount == Cardinality({ n \in 1..Len(rows) : Fails(rows[n]) })

\* the 0-based positions of the failing rows, ascending
FailedIndices ==
    SelectSeq([n \in 1..Len(rows) |-> n - 1], LAMBDA i : Fails(rows[i + 1]))

RawOf(convs) == [n \in 1..Len(convs) |-> convs[n].raw]

(***************************************************************************)
(* Properties                                                              *)
(***************************************************************************)
\* C1: a text in which no header of the form "Date/time: DATE, HH:MM" can
\* be located makes _parse_conversation fail with ValueError, whatever
\* message lines it holds; no Conversation comes back.
Thm_C1 ==
    (pc = "done" /\ ~ HasHeaderForm(text)) => result = ValueError

\* a text without a header but with a message the pattern matches, and a
\* near-miss header, rejected
Wit_C1 ==
    /\ pc = "done"
    /\ ~ HasHeaderForm(text)
    /\ FindIter(text, 1) # << >>
    /\ \E i \in 1..Len(text) : text[i] = "Date/time"
    /\ result = ValueError

\* C2: a well-formed header followed by N message lines parses to a
\* Conversation of exactly N messages, each on the header's date (stated
\* for message lines with a single colon, the last of them with content).
CX_C2 ==
    (pc = "done" /\ IsHeaderThenMessageLines(text))
        => /\ result.kind = "Conversation"
           /\ Len(result.messages) = Len(LinesOf(text)) - 1
           /\ \A n \in 1..Len(result.messages) :
                /\ result.messages[n].timestamp.year
                       = result.metadata.timestamp.year
                /\ result.messages[n].timestamp.month
                       = result.metadata.timestamp.month
                /\ result.messages[n].timestamp.day
                       = result.metadata.timestamp.day

\* C3: in lenient mode the batch of K rows of which F fail returns the K - F
\* conversations of the other rows in their order, logs the F failing
\* indices and does not raise.
Thm_C3 ==
    (ret.op = "load_conversations" /\ ~ validate_data)
        => /\ ~ ret.raised
           /\ Len(ret.value) = Len(rows) - FailedCount
           /\ RawOf(ret.value) = SelectSeq(rows, LAMBDA t : ~ Fails(t))
           /\ ret.logged = FailedIndices
           /\ Len(ret.logged) = FailedCount

\* a lenient batch whose first row fails and whose second row is parsed
Wit_C3 ==
    /\ ret.op = "load_conversations"
    /\ ~ validate_data
    /\ Len(rows) >= 2
    /\ Fails(rows[1])
    /\ ~ Fails(rows[2])
    /\ ret.logged = << 0 >>
    /\ Len(ret.value) = Len(rows) - 1

\* C4: in strict mode (validate_data = True) the first failing row makes
\* the batch raise to the caller.
CX_C4 ==
    (ret.op = "load_conversations" /\ validate_data /\ FailedCount >= 1)
        => ret.raised

\* C5: a message is an operator's exactly when its sender label without the
\* whitespace around it is "Awel" or "Awel wachtrij"; every other message is
\* a user's.
Thm_C5 ==
    (pc = "done" /\ result.kind = "Conversation")
        => \A n \in 1..Len(result.messages) :
             LET label == FindIter(text, 1)[n].role
             IN  /\ result.messages[n].role \in { "operator", "user" }
                 /\ result.messages[n].role = "operator"
                      <=> Trimmed(label) \in OperatorLabels

\* an operator message whose label carries whitespace, next to a user's
Wit_C5 ==
    /\ pc = "done"
    /\ result.kind = "Conversation"
    /\ \E n \in 1..Len(result.messages) :
         /\ result.messages[n].role = "operator"
         /\ FindIter(text, 1)[n].role # Trimmed(FindIter(text, 1)[n].role)
    /\ \E n \in 1..Len(result.messages) : result.messages[n].role = "user"

\* C6: a valid header and no line that begins with an HH:MM token parse to
\* a Conversation without messages.
CX_C6 ==
    (/\ pc = "done"
     /\ IsValidHeaderLine(LinesOf(text)[1])
     /\ \A n \in 1..Len(LinesOf(text)) : ~ TimeAt(LinesOf(text)[n], 1))
        => /\ result.kind = "Conversation"
           /\ result.messages = << >>

\* C7: every later load_conversations returns what the first one returned.
CX_C7 ==
    (ret.op = "load_conversations" /\ firstLoad # << >>)
        => ret.value = firstLoad[1]

\* C8: get_conversation_by_id of the id of a conversation that
\* load_conversations returned finds a conversation with that id.
CX_C8 ==
    (ret.op = "get_conversation_by_id" /\ ret.arg \in returnedIds)
        => /\ ret.value # None
           /\ ret.value.id = ret.arg

\* C9: get_statistics raises no division error: nothing loaded gives the
\* empty result, and conversations none of which has two messages give an
\* average duration of 0.
Thm_C9 ==
    ret.op = "get_statistics"
        => /\ ~ ret.raised
           /\ ret.value # ZeroDivisionError
           /\ (ret.loaded = << >> => ret.value = EmptyDict)
           /\ (/\ ret.loaded # << >>
               /\ \A n \in 1..Len(ret.loaded) :
                    Len(ret.loaded[n].messages) < 2)
                 => /\ ret.value.kind = "dict"
                    /\ ret.value.avg_conversation_length_minutes = 0

\* statistics over conversations none of which has two messages
Wit_C9 ==
    /\ ret.op = "get_statistics"
    /\ ret.loaded # << >>
    /\ \A n \in 1..Len(ret.loaded) : Len(ret.loaded[n].messages) < 2
    /\ \E n \in 1..Len(ret.loaded) : Len(ret.loaded[n].messages) = 1
    /\ ret.value.kind = "dict"
    /\ ret.value.avg_conversation_length_minutes = 0

\* the text with the end time of its leading header line set to 18:05
WithOtherEndTime(t) ==
    SubSeq(t, 1, 23) \o << "1", "8", ":", "0", "5" >> \o SubSeq(t, 29, Len(t))

\* C10: of a parsed transcript, Metadata.timestamp is the header's date and
\* start time, the header's end time changes nothing in the result, the
\* source is the label passed in and raw is the input.
CX_C10 ==
    (/\ pc = "done"
     /\ result.kind = "Conversation"
     /\ LinesOf(text)[1] = HeaderLine)
        => /\ result.metadata.timestamp
                = [kind |-> "datetime", year |-> 2023, month |-> 2,
                   day |-> 10, hour |-> 17, minute |-> 22]
           /\ result.metadata.source = source
           /\ result.raw = text
           /\ [result EXCEPT !.raw = << >>]
                = [_parse_conversation(WithOtherEndTime(text), source,
                                       result.id) EXCEPT !.raw = << >>]

\* position p starts a line of t
AtLineStart(t, p) == p = 1 \/ (p > 1 /\ t[p - 1] = "\n")

\* the first colon of t after position a, 0 when there is none
FirstColonAfter(t, a) ==
    LET cs == { c \in (a + 1)..Len(t) : t[c] = ":" }
    IN  IF cs = {} THEN 0 ELSE CHOOSE x \in cs : \A y \in cs : x <= y

\* the first position after c that starts a line beginning with an HH:MM
\* token, Len(t) + 2 when there is none
NextTimedLine(t, c) ==
    LET qs == { q \in (c + 1)..Len(t) : t[q - 1] = "\n" /\ TimeAt(t, q) }
    IN  IF qs = {} THEN Len(t) + 2 ELSE CHOOSE x \in qs : \A y \in qs : x <= y

\* what follows the sender's colon c up to the next line that begins with an
\* HH:MM token, without the whitespace around it
TextUpToNextTimedLine(t, c) ==
    Trimmed(SubSeq(t, c + 1, NextTimedLine(t, c) - 2))

\* some line of s begins with an HH:MM token
HasTimedLine(s) == \E q \in 1..Len(s) : AtLineStart(s, q) /\ TimeAt(s, q)

\* C11: the content of a message is what follows the sender's colon on the
\* message's own line and the lines after it, up to the first line that
\* begins with an HH:MM token, trimmed; no line of it begins with an HH:MM
\* token (stated for the messages whose time token starts a line and whose
\* colon stands on that line).
CX_C11 ==
    (pc = "done" /\ result.kind = "Conversation")
        => \A n \in 1..Len(result.messages) :
             LET m == FindIter(text, 1)[n]
                 c == FirstColonAfter(text, m.start + 5)
             IN  (AtLineStart(text, m.start) /\ c <= LineEnd(text, m.start))
                   => /\ result.messages[n].content
                            = TextUpToNextTimedLine(text, c)
                      /\ ~ HasTimedLine(result.messages[n].content)

\* tok, an HH:MM token, names a time of day
IsTimeOfDay(tok) ==
    /\ 10 * DigitVal(tok[1]) + DigitVal(tok[2]) <= 23
    /\ 10 * DigitVal(tok[4]) + DigitVal(tok[5]) <= 59

\* d, a run of digits and dots, names a day of the calendar as DD.MM.YYYY
IsExistingDate(d) == strptime(d, << "0", "0", ":", "0", "0" >>) # ValueError

\* every HH:MM token that starts a match of the message pattern in t names a
\* time of day
MessageTimesValid(t) ==
    LET ms == FindIter(t, 1)
    IN  \A n \in 1..Len(ms) : IsTimeOfDay(ms[n].time)

\* the header of t is found and its date and start time exist
HeaderStampValid(t) ==
    LET h == HeaderSearch(t)
    IN  h.ok /\ IsExistingDate(h.date) /\ IsTimeOfDay(h.time)

\* C12, as stated: whenever the header pattern is found in the text, the
\* parse returns a Conversation, whatever the message lines hold.
CX_C12 ==
    (pc = "done" /\ HasHeaderForm(text)) => result.kind = "Conversation"

\* C12, amended: the parse returns a Conversation exactly when the header
\* pattern is found, the header's date and start time exist, and every HH:MM
\* token taken as a message timestamp names a time of day; in every other
\* case it fails with ValueError.
Thm_C12 ==
    pc = "done"
        => /\ result.kind \in {"Conversation", "ValueError"}
           /\ result.kind = "Conversation"
                <=> (HeaderStampValid(text) /\ MessageTimesValid(text))

\* C12: the header is found and is a real date and time, a message line
\* carries an HH:MM token that is no time of day, and the parse has failed
Wit_C12 ==
    /\ pc = "done"
    /\ HeaderStampValid(text)
    /\ ~ MessageTimesValid(text)
    /\ result = ValueError

\* where the header found by re.search starts in t
HeaderStart(t) ==
    CHOOSE i \in 1..Len(t) :
      /\ HeaderMatchAt(t, i).ok
      /\ \A j \in 1..(i - 1) : ~ HeaderMatchAt(t, j).ok

\* C13: every message is taken from the text after the header line (none
\* from the text before the header, none from the header line, whose start
\* and end time tokens are never message timestamps), and the messages stand
\* in the result in the order in which they stand in the text.
CX_C13 ==
    (pc = "done" /\ result.kind = "Conversation")
        => LET ms == FindIter(text, 1)
               headerEnd == LineEnd(text, HeaderStart(text))
           IN  /\ Len(result.messages) = Len(ms)
               /\ \A n \in 1..Len(ms) : ms[n].start > headerEnd
               /\ \A n \in 1..Len(ms) : \A k \in (n + 1)..Len(ms) :
                    ms[n].start < ms[k].start

\* at p starts a message line of t whose sender label holds a colon: an
\* HH:MM token, whitespace, a label with a first colon c in it, and later on
\* the line the colon that ends the label, then whitespace and the content
ColonInLabelAt(t, p) ==
    LET c == FirstColonAfter(t, p + 5)
        e == LineEnd(t, p)
    IN  /\ AtLineStart(t, p)
        /\ TimeAt(t, p)
        /\ p + 5 <= Len(t)
        /\ IsSpace(t[p + 5])
        /\ c > p + 6
        /\ c <= e
        /\ Trimmed(SubSeq(t, p + 6, c - 1)) # << >>
        /\ \E k \in (c + 1)..e :
             /\ t[k] = ":"
             /\ k + 1 <= e
             /\ IsSpace(t[k + 1])
             /\ \E x \in (k + 2)..e : ~ IsSpace(t[x])

\* the matches of the message pattern that start on the line of t that
\* starts at p, as indices into the result's messages
MessagesOfLine(t, p) ==
    LET ms == FindIter(t, 1)
    IN  { n \in 1..Len(ms) : ms[n].start >= p /\ ms[n].start <= LineEnd(t, p) }

=============================================================================
